---- MODULE Spec2Model ----
(***************************************************************************)
(* Model of the response normalisation done by the frontend of the        *)
(* AI code review system: SimpleAnalysisOutputPanel.getStructuredData     *)
(* (frontend/src/types/analysis.ts, lines 607-697) and the pieces of the   *)
(* renderer that consume its result, and of App                            *)
(* (frontend/src/components/CriteriaSelector.tsx, lines 403-703), which    *)
(* holds the selection, sends the request and hands the response to the   *)
(* panel.                                                                  *)
(*                                                                         *)
(* Text is modelled as a sequence of tokens.  Each token stands for a run  *)
(* of characters of one lexical class:                                     *)
(*   "J"  the seven characters ```json                                     *)
(*   "F"  three backticks not followed by json                             *)
(*   "{"  a single opening brace        "}"  a single closing brace        *)
(*   "w"  one whitespace character      "x"  prose without ` { }           *)
(*   "n"  a JSON number literal         "null"  the JSON literal null      *)
(*   "A", "B"  the text of a complete JSON object: it starts with {, ends  *)
(*        with }, is balanced and holds no backticks; the object it        *)
(*        denotes is docs[tok]                                             *)
(***************************************************************************)
EXTENDS Integers, Sequences, FiniteSets, TLC

VARIABLES result, docs, config, pc, jsonMatch, parsedData, structuredResult, raised,
          codeInput, analysisResult, loading, error, request, pending, timers, elapsed,
          prompt, snackbarOpen, snackbarMessage, exported,
          settingsOpen, settings, localStorage

vars == <<result, docs, config, pc, jsonMatch, parsedData, structuredResult, raised,
          codeInput, analysisResult, loading, error, request, pending, timers, elapsed,
          prompt, snackbarOpen, snackbarMessage, exported,
          settingsOpen, settings, localStorage>>

\* The state of App next to config, and what surrounds it: the body of the
\* latest fetch, the number of fetches that await their answer, the pending
\* Quality Only timers and the time since the fetch.
app == <<codeInput, analysisResult, loading, error, request, pending, timers, elapsed>>

\* CriteriaSelector.tsx lines 436-437: the notification
snackbar == <<snackbarOpen, snackbarMessage>>

\* SettingsDialog: whether it is open (CriteriaSelector.tsx line 435), the
\* settings it holds (analysis.ts lines 1012-1015) and the stored item
dialog == <<settingsOpen, settings, localStorage>>

\* Longest detailed_feedback text, in tokens, of the exhaustive specification.
MaxLen == 4

\* Most Quality Only timers pending at once.
MaxTimers == 1

\* Longest time, in milliseconds, a request is followed for.
MaxElapsed == 60000

----------------------------------------------------------------------------
(* JavaScript values *)

Undefined == [t |-> "undefined"]
Null == [t |-> "null"]
Num(n) == [t |-> "number", n |-> n]
Str(s) == [t |-> "string", s |-> s]
\* A criterion sub-object {score, comment}; either field may be Undefined.
Obj(score, comment) == [t |-> "object", score |-> score, comment |-> comment]

\* ToBoolean, as applied by ||, && and !
Truthy(v) ==
  CASE v.t = "undefined" -> FALSE
    [] v.t = "null" -> FALSE
    [] v.t = "number" -> v.n # 0
    [] v.t = "string" -> v.s # <<>>
    [] OTHER -> TRUE

\* a || b
Or(a, b) == IF Truthy(a) THEN a ELSE b

----------------------------------------------------------------------------
(* The result object *)

CriterionKeys ==
  {"areCodeChangesOptimized", "areCodeChangesRelative", "isCodeFormatted",
   "isCodeWellWritten", "areCommentsWritten", "cyclomaticComplexityScore",
   "missingElements", "loopholes", "isCommitMessageWellWritten",
   "isNamingConventionFollowed", "areThereAnySpellingMistakes",
   "securityConcernsAny", "isCodeDuplicated", "areConstantsDefinedCentrally",
   "isCodeModular", "isLoggingDoneProperly"}

TopKeys == {"overall_score", "summary", "detailed_feedback"}

MetaKeys == {"processing_time_ms", "analysis_timestamp", "input_length"}

\* CriteriaSelector.tsx line 326
DerivedKeys == {"weighted_overall_score"}

Keys == TopKeys \cup CriterionKeys \cup MetaKeys \cup DerivedKeys

\* The keys the merge of lines 658-677 assigns.
MergedKeys == TopKeys \cup CriterionKeys

\* An object none of whose properties is defined.
EmptyObject == [k \in Keys |-> Undefined]

----------------------------------------------------------------------------
(* Tokens *)

Tok == {"J", "F", "{", "}", "w", "x", "n", "null", "A", "B"}

ObjTok == {"A", "B"}

\* \s
IsWs(t) == t = "w"

\* the token begins with ```
IsFence(t) == t \in {"F", "J"}

\* the token's first character is {
StartsWithBrace(t) == t \in {"{", "A", "B"}

\* the token's last character is }
EndsWithBrace(t) == t \in {"}", "A", "B"}

----------------------------------------------------------------------------
(* String.prototype.match with the three patterns of lines 633-646.  A     *)
(* match records the token range of capture group 1.                       *)

NoMatch == [found |-> FALSE, from |-> 0, to |-> 0]

Match(from, to) == [found |-> TRUE, from |-> from, to |-> to]

\* the captured text, jsonMatch[1]
Captured(s, m) == SubSeq(s, m.from, m.to)

RECURSIVE SkipWs(_, _)
\* greedy \s* starting at i: the index of the first token at or after i
\* that is not whitespace (Len(s) + 1 when there is none)
SkipWs(s, i) == IF i <= Len(s) /\ IsWs(s[i]) THEN SkipWs(s, i + 1) ELSE i

\* \s*``` matches at index e
ClosesAt(s, e) == LET f == SkipWs(s, e) IN f <= Len(s) /\ IsFence(s[f])

RECURSIVE LazyUntilFence(_, _)
\* ([\s\S]*?)\s*``` with the capture starting at a and now ending before e:
\* the capture grows one token at a time until the rest matches
LazyUntilFence(s, e) ==
  IF e > Len(s) THEN 0
  ELSE IF ClosesAt(s, e) THEN e
  ELSE LazyUntilFence(s, e + 1)

RECURSIVE JsonFenceFrom(_, _)
\* /```json\s*([\s\S]*?)\s*```/ tried at start index i, then at i + 1, ...
JsonFenceFrom(s, i) ==
  IF i > Len(s) THEN NoMatch
  ELSE IF s[i] = "J"
       THEN LET a == SkipWs(s, i + 1)
                e == LazyUntilFence(s, a)
            IN IF e # 0 THEN Match(a, e - 1) ELSE JsonFenceFrom(s, i + 1)
       ELSE JsonFenceFrom(s, i + 1)

\* line 633
MatchJsonFence(s) == JsonFenceFrom(s, 1)

RECURSIVE LazyBraceEnd(_, _)
\* [\s\S]*?\}\s*``` : the first closing brace at or after e that is followed
\* by optional whitespace and a fence
LazyBraceEnd(s, e) ==
  IF e > Len(s) THEN 0
  ELSE IF EndsWithBrace(s[e]) /\ ClosesAt(s, e + 1) THEN e
  ELSE LazyBraceEnd(s, e + 1)

\* the first index at which the closing brace of a span opened at q can lie:
\* a lone { needs a later token, an object token closes itself
CloseFrom(s, q) == IF s[q] = "{" THEN q + 1 ELSE q

RECURSIVE BraceFenceFrom(_, _)
\* /```\s*(\{[\s\S]*?\})\s*```/ tried at start index i, then at i + 1, ...
\* The opening backticks must be followed by \s*\{, so a ```json token
\* cannot open the match (it can close it).
BraceFenceFrom(s, i) ==
  IF i > Len(s) THEN NoMatch
  ELSE IF s[i] = "F"
       THEN LET q == SkipWs(s, i + 1)
                e == IF q <= Len(s) /\ StartsWithBrace(s[q])
                     THEN LazyBraceEnd(s, CloseFrom(s, q)) ELSE 0
            IN IF e # 0 THEN Match(q, e) ELSE BraceFenceFrom(s, i + 1)
       ELSE BraceFenceFrom(s, i + 1)

\* line 637
MatchBraceFence(s) == BraceFenceFrom(s, 1)

\* the span end with a lazy quantifier: the first closing brace from lo on
GreedyBraceEnd_Lazy(s, e, lo) ==
  LET ends == {i \in lo..e : EndsWithBrace(s[i])}
  IN IF ends = {} THEN 0 ELSE CHOOSE i \in ends : \A j \in ends : i <= j

RECURSIVE GreedyBraceEnd(_, _, _)
\* [\s\S]*\} : greedy, so the last closing brace, searched backwards from e
\* down to lo
GreedyBraceEnd(s, e, lo) ==
  IF e < lo THEN 0
  ELSE IF EndsWithBrace(s[e]) THEN e
  ELSE GreedyBraceEnd(s, e - 1, lo)

RECURSIVE DirectFrom(_, _)
\* /(\{[\s\S]*\})/ tried at start index q, then at q + 1, ...
DirectFrom(s, q) ==
  IF q > Len(s) THEN NoMatch
  ELSE IF StartsWithBrace(s[q])
       THEN LET e == GreedyBraceEnd(s, Len(s), CloseFrom(s, q))
            IN IF e # 0 THEN Match(q, e) ELSE DirectFrom(s, q + 1)
       ELSE DirectFrom(s, q + 1)

\* line 642
directJsonMatch(s) == DirectFrom(s, 1)

\* the cascade with the bare brace span tried first
FindJsonMatch_BareFirst(s) ==
  LET m3 == directJsonMatch(s)
      m1 == MatchJsonFence(s)
  IN IF m3.found THEN m3
     ELSE IF m1.found THEN m1
     ELSE MatchBraceFence(s)

\* lines 633-646: the cascade that assigns jsonMatch
FindJsonMatch(s) ==
  LET m1 == MatchJsonFence(s)
      m2 == MatchBraceFence(s)
  IN IF m1.found THEN m1
     ELSE IF m2.found THEN m2
     ELSE directJsonMatch(s)

----------------------------------------------------------------------------
(* JSON.parse *)

RECURSIVE TrimLeft(_)
TrimLeft(s) == IF s # <<>> /\ IsWs(Head(s)) THEN TrimLeft(Tail(s)) ELSE s

RECURSIVE TrimRight(_)
TrimRight(s) ==
  IF s # <<>> /\ IsWs(s[Len(s)]) THEN TrimRight(SubSeq(s, 1, Len(s) - 1)) ELSE s

\* JSON.parse ignores whitespace around the value
Trim(s) == TrimRight(TrimLeft(s))

SyntaxError == [ok |-> FALSE, kind |-> "none", props |-> EmptyObject]

\* JSON.parse(text) under the object bindings d: one object token, one
\* literal, or an empty pair of braces is a JSON text; anything else throws
\* SyntaxError.
JSONparse(text, d) ==
  LET c == Trim(text)
  IN IF Len(c) = 1 /\ c[1] \in ObjTok
       THEN [ok |-> TRUE, kind |-> "object", props |-> d[c[1]]]
     ELSE IF c = <<"n">>
       THEN [ok |-> TRUE, kind |-> "number", props |-> EmptyObject]
     ELSE IF c = <<"null">>
       THEN [ok |-> TRUE, kind |-> "null", props |-> EmptyObject]
     ELSE IF Len(c) >= 2 /\ c[1] = "{" /\ c[Len(c)] = "}"
             /\ \A i \in 2..(Len(c) - 1) : IsWs(c[i])
       THEN [ok |-> TRUE, kind |-> "object", props |-> EmptyObject]
     ELSE SyntaxError

----------------------------------------------------------------------------
(* getStructuredData, lines 607-694 *)

\* the check looking at isCodeFormatted alone
hasCriteria_OnlyFormatted(r) == r["isCodeFormatted"]

\* line 620: the value of the || chain over three of the sixteen criteria
hasCriteria(r) ==
  Or(Or(r["areCodeChangesOptimized"], r["isCodeFormatted"]), r["isCodeWellWritten"])

\* line 621: the condition of the early return
HasStructuredData(r) ==
  r["overall_score"] # Undefined /\ Truthy(r["summary"]) /\ Truthy(hasCriteria(r))

\* the merge with the operands of || exchanged
Merge_ResultFirst(r, p) ==
  [k \in Keys |-> IF k \in MergedKeys THEN Or(r[k], p[k]) ELSE r[k]]

\* the merge with the raw text as the last fallback of summary
Merge_SummaryFromText(r, p) ==
  [k \in Keys |-> IF k = "summary" THEN Or(Or(p[k], r[k]), r["detailed_feedback"])
                  ELSE IF k \in MergedKeys THEN Or(p[k], r[k]) ELSE r[k]]

\* the merge keeping the response's detailed_feedback
Merge_KeepFeedback(r, p) ==
  [k \in Keys |-> IF k \in MergedKeys \ {"detailed_feedback"} THEN Or(p[k], r[k]) ELSE r[k]]

\* the merge over every property of the parsed object
Merge_AllKeys(r, p) == [k \in Keys |-> Or(p[k], r[k])]

\* the merge that copies the fields the panel's interface declares
Merge_DeclaredFields(r, p) ==
  [k \in Keys |-> IF k \in MergedKeys THEN Or(p[k], r[k])
                  ELSE IF k \in MetaKeys THEN r[k] ELSE Undefined]

\* the merge without the spread of result
Merge_NoSpread(r, p) ==
  [k \in Keys |-> IF k \in MergedKeys THEN Or(p[k], r[k]) ELSE Undefined]

\* lines 656-678: {...result, k: parsedData.k || result.k, ...} for the
\* nineteen keys listed there; p holds the properties read from parsedData
Merge(r, p) ==
  [k \in Keys |-> IF k \in MergedKeys THEN Or(p[k], r[k]) ELSE r[k]]

\* How a function or a block ends: by return, by an exception, or by
\* running off its end.
Returned(v, m, pd) == [how |-> "return", value |-> v, jsonMatch |-> m, parsedData |-> pd]

Thrown(v, m, pd) == [how |-> "throw", value |-> v, jsonMatch |-> m, parsedData |-> pd]

FellThrough(v, m, pd) == [how |-> "end", value |-> v, jsonMatch |-> m, parsedData |-> pd]

\* lines 632-684: the body of the try block, for a truthy detailed_feedback
TryBlock(r, d) ==
  LET fb == r["detailed_feedback"]
  IN IF fb.t # "string"
       THEN Thrown(r, NoMatch, SyntaxError)              \* .match is not a function
     ELSE LET m == FindJsonMatch(fb.s)
          IN IF ~m.found
               THEN FellThrough(r, m, SyntaxError)      \* line 683
             ELSE LET pd == JSONparse(Captured(fb.s, m), d)
                  IN IF ~pd.ok THEN Thrown(r, m, pd)    \* SyntaxError, line 653
                     ELSE IF pd.kind = "null"
                       THEN Thrown(r, m, pd)            \* TypeError, line 658
                     ELSE Returned(Merge(r, pd.props), m, pd)

\* a handler that lets the exception escape to the caller
Catch_Rethrow(r, o) == Thrown(r, o.jsonMatch, o.parsedData)

\* lines 685-687 and 692-693: the handler logs, and control reaches the
\* final return of the unchanged result
Catch(r, o) == Returned(r, o.jsonMatch, o.parsedData)

\* the function made to reject a result without raw text and timing
getStructuredData_Strict(r, d) ==
  IF r = Null THEN Thrown(r, NoMatch, SyntaxError)
  ELSE IF r["detailed_feedback"] = Undefined /\ r["processing_time_ms"] = Undefined
    THEN Thrown(r, NoMatch, SyntaxError)
  ELSE IF HasStructuredData(r)
    THEN Returned(r, NoMatch, SyntaxError)
  ELSE IF Truthy(r["detailed_feedback"])
    THEN LET o == TryBlock(r, d)
         IN CASE o.how = "return" -> o
              [] OTHER -> Returned(r, o.jsonMatch, o.parsedData)
  ELSE Returned(r, NoMatch, SyntaxError)

\* the function as a whole: how the call ends and with which value
getStructuredData(r, d) ==
  IF r = Null
    THEN Returned(r, NoMatch, SyntaxError)               \* line 608
  ELSE IF HasStructuredData(r)
    THEN Returned(r, NoMatch, SyntaxError)               \* line 623
  ELSE IF Truthy(r["detailed_feedback"])
    THEN LET o == TryBlock(r, d)
         IN CASE o.how = "return" -> o
              [] o.how = "throw" -> Catch(r, o)
              [] OTHER -> Returned(r, o.jsonMatch, o.parsedData)
  ELSE Returned(r, NoMatch, SyntaxError)                 \* lines 689, 693

----------------------------------------------------------------------------
(* The renderer *)

\* lines 703-707
getScoreColor(score) ==
  IF score.t = "number" /\ score.n >= 8 THEN "success"
  ELSE IF score.t = "number" /\ score.n >= 6 THEN "warning"
  ELSE "error"

\* the property p of a criterion value, undefined on a value that is not a
\* criterion object
Prop(c, p) ==
  IF c.t = "object" THEN (IF p = "score" THEN c.score ELSE c.comment) ELSE Undefined

\* lines 700-729: nothing for a falsy criterion, else a card whose chip
\* shows `${score}/10` and whose comment line is there for a truthy comment
renderCriterion(criterion) ==
  IF ~Truthy(criterion)
    THEN [card |-> FALSE, chip |-> Undefined, color |-> "none", comment |-> FALSE]
  ELSE [card |-> TRUE, chip |-> Prop(criterion, "score"),
        color |-> getScoreColor(Prop(criterion, "score")),
        comment |-> Truthy(Prop(criterion, "comment"))]

\* lines 824-831: the overall score card; toFixed exists on numbers only
OverallScoreCard(r) ==
  IF r["overall_score"] = Undefined THEN "hidden"
  ELSE IF r["overall_score"].t = "number" THEN "shown"
  ELSE "TypeError"

----------------------------------------------------------------------------
(* State *)

\* lines 598-602 and 697: one render of the panel with the props it got
Render ==
  /\ pc = "props"
  /\ LET o == IF result = Null THEN Returned(Null, NoMatch, SyntaxError)
              ELSE getStructuredData(result, docs)
     IN /\ structuredResult' = o.value
        /\ raised' = (o.how = "throw")
        /\ jsonMatch' = o.jsonMatch
        /\ parsedData' = o.parsedData
  /\ pc' = "rendered"
  /\ UNCHANGED <<result, docs, config>>
  /\ UNCHANGED <<app, prompt, snackbar, exported, dialog>>

Next == Render

\* what new Date().toISOString() returns (line 738)
Timestamps == {<<"2025-01-01T00:00:00.000Z">>, <<"2025-01-01T00:00:01.000Z">>}

\* lines 736-739: {...structuredResult, exported_at: new Date().toISOString()}
ExportData(data, now) ==
  [k \in Keys \cup {"exported_at"} |-> IF k = "exported_at" THEN Str(now) ELSE data[k]]

\* JSON.stringify (line 741) of an object: the text has the properties
\* whose value is not undefined.  The text is kept as the object it
\* denotes, a function on the keys it spells out.
JSONstringify(o) == [k \in {x \in DOMAIN o : o[x] # Undefined} |-> o[k]]

\* the export of the result as it was received
handleExport_Received(now) ==
  /\ pc = "rendered"
  /\ structuredResult # Null
  /\ exported' = JSONstringify(ExportData(result, now))
  /\ UNCHANGED <<result, docs, config, pc, jsonMatch, parsedData, structuredResult, raised>>
  /\ UNCHANGED <<app, prompt, snackbar, dialog>>

\* lines 733-753: the Export button, shown when structuredResult is not
\* null (line 783); the blob offered for download holds the text
handleExport(now) ==
  /\ pc = "rendered"
  /\ structuredResult # Null                              \* line 734
  /\ exported' = JSONstringify(ExportData(structuredResult, now))
  /\ UNCHANGED <<result, docs, config, pc, jsonMatch, parsedData, structuredResult, raised>>
  /\ UNCHANGED <<app, prompt, snackbar, dialog>>

NextPanel ==
  \/ Render
  \/ \E now \in Timestamps : handleExport(now)

\* every text of at most n tokens
Texts(n) == UNION {[1..l -> Tok] : l \in 0..n}

AllSelected == [k \in CriterionKeys |-> TRUE]

OnlySelected(S) == [k \in CriterionKeys |-> k \in S]

Criterion78 == Obj(Num(7), Str(<<"x">>))

\* The objects the tokens A and B denote in the exhaustive specification.
DocA ==
  [EmptyObject EXCEPT !["overall_score"] = Num(7), !["summary"] = Str(<<"x">>),
                      !["isCodeFormatted"] = Criterion78]

DocB ==
  [EmptyObject EXCEPT !["overall_score"] = Num(3), !["summary"] = Str(<<"x", "x">>),
                      !["securityConcernsAny"] = Obj(Num(2), Str(<<"x">>))]

\* analysis.ts line 1006: defaultSettings.apiTimeout, in milliseconds
apiTimeout == 30000

\* analysis.ts lines 999-1009
defaultSettings ==
  [theme |-> "light", fontSize |-> 14, autoAnalyze |-> FALSE,
   showLineNumbers |-> TRUE, enableSyntaxHighlighting |-> TRUE,
   analysisDepth |-> "standard", apiTimeout |-> apiTimeout,
   saveHistory |-> TRUE, enableNotifications |-> TRUE]

\* CriteriaSelector.tsx lines 405-430: the prompt App starts with
InitialPrompt == "Analyze this code and provide a comprehensive review: ..."

\* App, the dialog and the export as they are before any use: lines 405-437
\* of CriteriaSelector.tsx, lines 1012-1015 of analysis.ts with nothing stored
InitUnused ==
  /\ prompt = InitialPrompt
  /\ snackbarOpen = FALSE
  /\ snackbarMessage = ""
  /\ exported = Null
  /\ settingsOpen = FALSE
  /\ settings = defaultSettings
  /\ localStorage = Null

InitCommon ==
  /\ InitUnused
  /\ pc = "props"
  /\ jsonMatch = NoMatch
  /\ parsedData = SyntaxError
  /\ structuredResult = EmptyObject
  /\ raised = FALSE
  /\ codeInput = <<"x">>
  /\ analysisResult = result
  /\ loading = FALSE
  /\ error = Null
  /\ request = Null
  /\ pending = 0
  /\ timers = <<>>
  /\ elapsed = 0

\* Every detailed_feedback text of at most MaxLen tokens, in a response
\* with or without a top-level overall_score.
InitExtract ==
  /\ \E text \in Texts(MaxLen), os \in {Undefined, Num(8)} :
       result = [EmptyObject EXCEPT !["detailed_feedback"] = Str(text),
                                    !["overall_score"] = os,
                                    !["input_length"] = Num(120)]
  /\ docs = [A |-> DocA, B |-> DocB]
  /\ config = AllSelected
  /\ InitCommon

SpecExtract == InitExtract /\ [][Next]_vars

\* The detailed_feedback texts of the value specification: empty, prose, a
\* ```json fence around a number, a bare object, a fenced object in prose,
\* a plain fence around an object.
MergeTexts ==
  {<<>>, <<"x">>, <<"J", "n", "F">>, <<"A">>,
   <<"x", "J", "w", "A", "w", "F">>, <<"F", "A", "F", "x">>}

CommentC == Str(<<"x">>)

\* Responses with and without each top-level field, over texts whose
\* object A carries in-range, out-of-range, zero, non-numeric and missing
\* scores and whole and partial criterion entries.
InitMerge ==
  /\ \E os \in {Undefined, Num(0), Num(8)},
        su \in {Undefined, Str(<<"x">>)},
        c1 \in {Undefined, Obj(Num(8), CommentC)},
        c2 \in {Undefined, Obj(Num(9), CommentC)},
        fb \in {Undefined, Num(1)} \cup {Str(t) : t \in MergeTexts} :
       result = [EmptyObject EXCEPT !["overall_score"] = os,
                                    !["summary"] = su,
                                    !["areCodeChangesOptimized"] = c1,
                                    !["securityConcernsAny"] = c2,
                                    !["detailed_feedback"] = fb,
                                    !["processing_time_ms"] = Num(1500),
                                    !["analysis_timestamp"] = Str(<<"x">>),
                                    !["input_length"] = Num(120)]
  /\ \E os \in {Undefined, Num(-3), Num(0), Num(7), Num(15), Str(<<"n">>)},
        su \in {Undefined, Str(<<>>), Str(<<"x", "x">>)},
        c1 \in {Undefined, Obj(Num(7), CommentC), Obj(Num(15), CommentC),
                Obj(Num(-3), CommentC), Obj(Num(7), Undefined),
                Obj(Undefined, CommentC)},
        c2 \in {Undefined, Obj(Num(7), CommentC)} :
       docs = [A |-> [EmptyObject EXCEPT !["overall_score"] = os,
                                         !["summary"] = su,
                                         !["areCodeChangesOptimized"] = c1,
                                         !["securityConcernsAny"] = c2],
               B |-> DocB]
  /\ config \in {AllSelected, OnlySelected({"securityConcernsAny"})}
  /\ InitCommon

SpecMerge == InitMerge /\ [][Next]_vars

\* Responses over texts whose object A may carry its own summary,
\* detailed_feedback (absent, empty, prose, or text that again holds an
\* object) and properties named like the metadata fields.
InitFields ==
  /\ \E os \in {Undefined, Num(8)},
        su \in {Undefined, Str(<<"x">>)},
        c1 \in {Undefined, Obj(Num(8), CommentC)},
        fb \in {Undefined} \cup {Str(t) : t \in MergeTexts} :
       result = [EmptyObject EXCEPT !["overall_score"] = os,
                                    !["summary"] = su,
                                    !["areCodeChangesOptimized"] = c1,
                                    !["detailed_feedback"] = fb,
                                    !["processing_time_ms"] = Num(1500),
                                    !["analysis_timestamp"] = Str(<<"x">>),
                                    !["input_length"] = Num(120)]
  /\ \E os \in {Undefined, Num(7)},
        su \in {Undefined, Str(<<>>), Str(<<"x", "x">>)},
        fb \in {Undefined, Str(<<>>), Str(<<"x", "x", "x">>), Str(<<"x", "B">>)},
        c1 \in {Undefined, Obj(Num(7), CommentC)},
        pt \in {Undefined, Num(1)},
        ts \in {Undefined, Str(<<"x", "x">>)},
        il \in {Undefined, Num(5)} :
       docs = [A |-> [EmptyObject EXCEPT !["overall_score"] = os,
                                         !["summary"] = su,
                                         !["detailed_feedback"] = fb,
                                         !["areCodeChangesOptimized"] = c1,
                                         !["processing_time_ms"] = pt,
                                         !["analysis_timestamp"] = ts,
                                         !["input_length"] = il],
               B |-> DocB]
  /\ config = AllSelected
  /\ InitCommon

SpecFields == InitFields /\ [][Next]_vars

\* Responses, complete and partial, over the template texts, for a panel
\* whose Export button is used.
InitExport ==
  /\ \E os \in {Undefined, Num(8)},
        su \in {Undefined, Str(<<"x">>)},
        c1 \in {Undefined, Obj(Num(8), CommentC)},
        fb \in {Undefined} \cup {Str(t) : t \in MergeTexts} :
       result = [EmptyObject EXCEPT !["overall_score"] = os,
                                    !["summary"] = su,
                                    !["isCodeFormatted"] = c1,
                                    !["detailed_feedback"] = fb,
                                    !["processing_time_ms"] = Num(1500),
                                    !["input_length"] = Num(120)]
  /\ \E c2 \in {Undefined, Obj(Num(2), CommentC)},
        fb \in {Undefined, Str(<<"x", "x">>)} :
       docs = [A |-> [DocA EXCEPT !["securityConcernsAny"] = c2,
                                  !["detailed_feedback"] = fb],
               B |-> DocB]
  /\ config = AllSelected
  /\ InitCommon

SpecExport == InitExport /\ [][NextPanel]_vars

\* Calls with and without input context: no result at all, or a result with
\* or without raw text (every text of at most MaxLen tokens) and with or
\* without timing information.
InitContext ==
  /\ \/ result = Null
     \/ \E fb \in {Undefined} \cup {Str(t) : t \in Texts(MaxLen)},
           pt \in {Undefined, Num(1500)} :
          result = [EmptyObject EXCEPT !["detailed_feedback"] = fb,
                                       !["processing_time_ms"] = pt,
                                       !["analysis_timestamp"] =
                                          IF pt = Undefined THEN Undefined
                                          ELSE Str(<<"x">>)]
  /\ docs = [A |-> DocA, B |-> DocB]
  /\ config = AllSelected
  /\ InitCommon

SpecContext == InitContext /\ [][Next]_vars

----------------------------------------------------------------------------
(* App (components/CriteriaSelector.tsx, lines 403-703) with its three     *)
(* children: CriteriaSelector, CodeInputPanel and the output panel.        *)

\* CriteriaSelector.tsx lines 440-457: every criterion starts disabled
InitialConfig == [k \in CriterionKeys |-> FALSE]

\* lines 239-244
qualityCriteria ==
  {"areCodeChangesOptimized", "isCodeWellWritten", "isCodeFormatted",
   "isNamingConventionFollowed"}

\* The switches the user flips one at a time: a quality criterion and
\* another one, neither among the three that hasCriteria looks at.
ToggleKeys == {"isNamingConventionFollowed", "securityConcernsAny"}

\* What the user types: nothing, blanks, code.
CodeInputs == {<<>>, <<"w">>, <<"x">>}

\* !code.trim() (line 467) and !value.trim() (CodeInputPanel line 329)
IsBlank(code) == \A i \in 1..Len(code) : IsWs(code[i])

\* the count of the keys instead of the count of the enabled ones
selectedCriteria_CountsKeys(c) == Cardinality(DOMAIN c)

\* line 473: Object.values(config).filter(Boolean).length
selectedCriteria(c) == Cardinality({k \in CriterionKeys : c[k]})

\* lines 460-462 applied for every key of S in turn: each call is
\* setConfig(prev => ({...prev, [key]: !prev[key]}))
toggleCriterion(prev, S) == [k \in CriterionKeys |-> IF k \in S THEN ~prev[k] ELSE prev[k]]

\* What the user makes of the prompt: the initial one or one of their own.
Prompts == {InitialPrompt, "Review this diff."}

\* line 489: what JSON.stringify({code, prompt: customPrompt, config}) holds
\* of the state at the time of the call
RequestBody(code, customPrompt, c) == [code |-> code, prompt |-> customPrompt, config |-> c]

\* line 697 in the render that follows setAnalysisResult(r), r an object:
\* result ? getStructuredData(result) : null
Rerender(r) ==
  /\ result' = r
  /\ pc' = "rendered"
  /\ LET o == getStructuredData(r, docs)
     IN /\ structuredResult' = o.value
        /\ raised' = (o.how = "throw")
        /\ jsonMatch' = o.jsonMatch
        /\ parsedData' = o.parsedData

\* line 697 in the render that follows setAnalysisResult(null)
RerenderNull ==
  /\ result' = Null
  /\ pc' = "rendered"
  /\ structuredResult' = Null
  /\ raised' = FALSE
  /\ jsonMatch' = NoMatch
  /\ parsedData' = SyntaxError

\* a render in which the output panel gets the props it had
SamePanel == UNCHANGED <<result, pc, structuredResult, raised, jsonMatch, parsedData>>

\* CodeInputPanel line 213: the text field
onChange(value) ==
  /\ codeInput' = value
  /\ SamePanel
  /\ UNCHANGED <<prompt, snackbar, exported, dialog>>
  /\ UNCHANGED <<docs, pending, config, analysisResult, loading, error, request, timers, elapsed>>

\* CodeInputPanel line 279: the prompt field
onPromptChange(value) ==
  /\ prompt' = value
  /\ SamePanel
  /\ UNCHANGED <<snackbar, exported, dialog>>
  /\ UNCHANGED <<docs, config, app>>

\* CriteriaSelector.tsx lines 687 and 691: the notification is closed, by
\* its button or after autoHideDuration
onSnackbarClose ==
  /\ snackbarOpen
  /\ snackbarOpen' = FALSE
  /\ SamePanel
  /\ UNCHANGED <<prompt, snackbarMessage, exported, dialog>>
  /\ UNCHANGED <<docs, config, app>>

\* CriteriaSelector line 163: one switch
onToggle_Live(key) ==
  /\ config' = toggleCriterion(config, {key})
  /\ request' = IF loading THEN [request EXCEPT !.config = config'] ELSE request
  /\ SamePanel
  /\ UNCHANGED <<prompt, snackbar, exported, dialog>>
  /\ UNCHANGED <<docs, pending, codeInput, analysisResult, loading, error, timers, elapsed>>

\* CriteriaSelector line 163: one switch
onToggle(key) ==
  /\ config' = toggleCriterion(config, {key})
  /\ SamePanel
  /\ UNCHANGED <<prompt, snackbar, exported, dialog>>
  /\ UNCHANGED <<docs, pending, codeInput, analysisResult, loading, error, request, timers, elapsed>>

\* Enable All that toggles every criterion, enabled or not
EnableAll_ToggleEvery ==
  /\ config' = toggleCriterion(config, CriterionKeys)
  /\ SamePanel
  /\ UNCHANGED <<prompt, snackbar, exported, dialog>>
  /\ UNCHANGED <<docs, pending, codeInput, analysisResult, loading, error, request, timers, elapsed>>

\* CriteriaSelector lines 194-213: toggle every criterion shown as disabled
EnableAll ==
  /\ config' = toggleCriterion(config, {k \in CriterionKeys : ~config[k]})
  /\ SamePanel
  /\ UNCHANGED <<prompt, snackbar, exported, dialog>>
  /\ UNCHANGED <<docs, pending, codeInput, analysisResult, loading, error, request, timers, elapsed>>

\* CriteriaSelector lines 214-226: toggle every criterion shown as enabled
DisableAll ==
  /\ config' = toggleCriterion(config, {k \in CriterionKeys : config[k]})
  /\ SamePanel
  /\ UNCHANGED <<prompt, snackbar, exported, dialog>>
  /\ UNCHANGED <<docs, pending, codeInput, analysisResult, loading, error, request, timers, elapsed>>

\* CriteriaSelector lines 227-254, the click: toggle every criterion shown as
\* enabled and start a timer whose callback keeps the config of this render,
\* of which it reads the quality criteria
QualityOnly ==
  /\ Len(timers) < MaxTimers
  /\ config' = toggleCriterion(config, {k \in CriterionKeys : config[k]})
  /\ timers' = Append(timers, [k \in qualityCriteria |-> config[k]])
  /\ SamePanel
  /\ UNCHANGED <<prompt, snackbar, exported, dialog>>
  /\ UNCHANGED <<docs, pending, codeInput, analysisResult, loading, error, request, elapsed>>

\* CriteriaSelector lines 245-251, the timer callback: toggle the quality
\* criteria that were disabled in the render of the click
QualityOnlyTimeout ==
  /\ timers # <<>>
  /\ config' = toggleCriterion(config, {k \in qualityCriteria : ~Head(timers)[k]})
  /\ timers' = Tail(timers)
  /\ SamePanel
  /\ UNCHANGED <<prompt, snackbar, exported, dialog>>
  /\ UNCHANGED <<docs, pending, codeInput, analysisResult, loading, error, request, elapsed>>

\* handleAnalyze with an Analyze button that stays enabled while loading
handleAnalyze_NotDisabled ==
  /\ ~IsBlank(codeInput)
  /\ IF IsBlank(codeInput)
       THEN /\ error' = Str(<<"Please enter some code or git diff to analyze">>)
            /\ SamePanel
            /\ UNCHANGED <<analysisResult, loading, request, pending, elapsed>>
     ELSE IF selectedCriteria(config) = 0
       THEN /\ error' = Str(<<"Please select at least one analysis criterion before running the analysis">>)
            /\ SamePanel
            /\ UNCHANGED <<analysisResult, loading, request, pending, elapsed>>
     ELSE /\ loading' = TRUE
          /\ error' = Null
          /\ analysisResult' = Null
          /\ RerenderNull
          /\ request' = RequestBody(codeInput, prompt, config)
          /\ pending' = pending + 1
          /\ elapsed' = 0
  /\ UNCHANGED <<prompt, snackbar, exported, dialog>>
  /\ UNCHANGED <<docs, config, codeInput, timers>>

\* lines 466-490, up to the await; the Analyze button (CodeInputPanel lines
\* 328-329) is enabled when not loading and the input is not blank
handleAnalyze ==
  /\ ~loading
  /\ ~IsBlank(codeInput)
  /\ IF IsBlank(codeInput)
       THEN /\ error' = Str(<<"Please enter some code or git diff to analyze">>)
            /\ SamePanel
            /\ UNCHANGED <<analysisResult, loading, request, pending, elapsed>>
     ELSE IF selectedCriteria(config) = 0
       THEN /\ error' = Str(<<"Please select at least one analysis criterion before running the analysis">>)
            /\ SamePanel
            /\ UNCHANGED <<analysisResult, loading, request, pending, elapsed>>
     ELSE /\ loading' = TRUE
          /\ error' = Null
          /\ analysisResult' = Null
          /\ RerenderNull
          /\ request' = RequestBody(codeInput, prompt, config)
          /\ pending' = pending + 1
          /\ elapsed' = 0
  /\ UNCHANGED <<prompt, snackbar, exported, dialog>>
  /\ UNCHANGED <<docs, config, codeInput, timers>>

\* The answers of the server: ok or not, a status text, and a body that is
\* JSON or not.
Response(ok, statusText, json, data) ==
  [ok |-> ok, statusText |-> statusText, json |-> json, data |-> data]

\* lines 492-494: the message of the Error thrown for a response that is
\* not ok; reading the body of one that is not JSON throws a SyntaxError
NotOkMessage(resp) ==
  IF ~resp.json THEN Str(<<"SyntaxError">>)
  ELSE Or(Or(resp.data.details, resp.data.error),
          Str(<<"Analysis failed: ", resp.statusText>>))

\* lines 479-506, from the await on, when the fetch resolves
handleAnalyze_Resolved(resp) ==
  /\ pending > 0
  /\ pending' = pending - 1
  /\ IF ~resp.ok
       THEN /\ error' = NotOkMessage(resp)                 \* lines 492-494, 502
            /\ UNCHANGED analysisResult
            /\ SamePanel
     ELSE IF ~resp.json
       THEN /\ error' = Str(<<"SyntaxError">>)             \* lines 497, 502
            /\ UNCHANGED analysisResult
            /\ SamePanel
     ELSE /\ analysisResult' = resp.data                   \* lines 497-498
          /\ IF resp.data = Null THEN RerenderNull ELSE Rerender(resp.data)
          /\ UNCHANGED error
  /\ IF resp.ok /\ resp.json
       THEN /\ snackbarMessage' = "Analysis completed successfully!"   \* line 499
            /\ snackbarOpen' = TRUE                                    \* line 500
       ELSE UNCHANGED snackbar
  /\ loading' = FALSE                                      \* line 504
  /\ elapsed' = 0
  /\ UNCHANGED <<prompt, exported, dialog>>
  /\ UNCHANGED <<docs, config, codeInput, request, timers>>

\* lines 501-505 when the fetch rejects: no connection
handleAnalyze_Rejected ==
  /\ pending > 0
  /\ pending' = pending - 1
  /\ error' = Str(<<"Failed to fetch">>)
  /\ loading' = FALSE
  /\ elapsed' = 0
  /\ SamePanel
  /\ UNCHANGED <<prompt, snackbar, exported, dialog>>
  /\ UNCHANGED <<docs, config, codeInput, analysisResult, request, timers>>

\* handleClearAll that also puts the prompt back to the initial one
handleClearAll_ResetsPrompt ==
  /\ ~loading
  /\ codeInput # <<>>
  /\ codeInput' = <<>>
  /\ analysisResult' = Null
  /\ error' = Null
  /\ RerenderNull
  /\ snackbarMessage' = "All content cleared"
  /\ snackbarOpen' = TRUE
  /\ prompt' = InitialPrompt
  /\ UNCHANGED <<exported, dialog>>
  /\ UNCHANGED <<docs, pending, config, loading, request, timers, elapsed>>

\* lines 508-514; the Clear button (CodeInputPanel lines 320-321) is enabled
\* when not loading and the input is not empty
handleClearAll ==
  /\ ~loading
  /\ codeInput # <<>>
  /\ codeInput' = <<>>
  /\ analysisResult' = Null
  /\ error' = Null
  /\ RerenderNull
  /\ snackbarMessage' = "All content cleared"             \* line 512
  /\ snackbarOpen' = TRUE                                 \* line 513
  /\ UNCHANGED <<prompt, exported, dialog>>
  /\ UNCHANGED <<docs, pending, config, loading, request, timers, elapsed>>

\* Time passes while the fetch of lines 484-490 is pending: it is given no
\* signal and no timer, so nothing happens in App.  elapsed is the time
\* the pending fetch has been waited for, 0 when none is pending.
Tick ==
  /\ pending > 0
  /\ elapsed + apiTimeout <= MaxElapsed
  /\ elapsed' = elapsed + apiTimeout
  /\ SamePanel
  /\ UNCHANGED <<prompt, snackbar, exported, dialog>>
  /\ UNCHANGED <<docs, pending, config, codeInput, analysisResult, loading, error, request, timers>>

----------------------------------------------------------------------------
(* The Settings dialog, analysis.ts lines 987-1269.  App renders it at     *)
(* all times (CriteriaSelector.tsx line 681) and passes it open and        *)
(* onClose, so its settings state lives as long as App does.               *)

BoolKeys == {"autoAnalyze", "showLineNumbers", "enableSyntaxHighlighting",
             "saveHistory", "enableNotifications"}

NumKeys == {"fontSize", "apiTimeout"}

\* JSON.stringify of a settings object: per key the text of its value
StringifySettings(s) ==
  [k \in DOMAIN s |->
     IF k \in BoolKeys THEN <<IF s[k] THEN "true" ELSE "false">>
     ELSE IF k \in NumKeys THEN <<"number", s[k]>>
     ELSE <<"\"", s[k], "\"">>]

\* JSON.parse of such a text
ParseSettings(text) ==
  [k \in DOMAIN text |->
     IF k \in BoolKeys THEN text[k] = <<"true">> ELSE text[k][2]]

\* lines 1012-1015: the initializer of the settings state
InitialSettings(saved) ==
  IF saved = Null THEN defaultSettings
  ELSE LET parsed == ParseSettings(saved)
       IN [k \in DOMAIN defaultSettings |->
             IF k \in DOMAIN parsed THEN parsed[k] ELSE defaultSettings[k]]

\* the edits made in the dialog: a key and its new value
SettingChanges ==
  {<<"theme", v>> : v \in {"light", "dark"}}
  \cup {<<"fontSize", v>> : v \in {14, 16}}
  \cup {<<"apiTimeout", v>> : v \in {apiTimeout, 2 * apiTimeout}}
  \cup {<<"autoAnalyze", v>> : v \in BOOLEAN}

\* the settings a previous visit may have stored
StoredSettings ==
  {defaultSettings, [defaultSettings EXCEPT !.theme = "dark", !.fontSize = 16]}

\* CriteriaSelector.tsx lines 538-544: the Settings button of the app bar
onSettingsClick ==
  /\ ~settingsOpen
  /\ settingsOpen' = TRUE
  /\ UNCHANGED <<settings, localStorage>>
  /\ UNCHANGED <<result, docs, config, pc, jsonMatch, parsedData, structuredResult, raised>>
  /\ UNCHANGED <<app, prompt, snackbar, exported>>

\* lines 1017-1022
handleSettingChange(key, value) ==
  /\ settingsOpen
  /\ settings' = [settings EXCEPT ![key] = value]
  /\ UNCHANGED <<settingsOpen, localStorage>>
  /\ UNCHANGED <<result, docs, config, pc, jsonMatch, parsedData, structuredResult, raised>>
  /\ UNCHANGED <<app, prompt, snackbar, exported>>

\* lines 1024-1027, the Save Settings button
handleSave ==
  /\ settingsOpen
  /\ localStorage' = StringifySettings(settings)
  /\ settingsOpen' = FALSE
  /\ UNCHANGED settings
  /\ UNCHANGED <<result, docs, config, pc, jsonMatch, parsedData, structuredResult, raised>>
  /\ UNCHANGED <<app, prompt, snackbar, exported>>

\* lines 1029-1032, the Reset to Defaults button
handleReset ==
  /\ settingsOpen
  /\ settings' = defaultSettings
  /\ localStorage' = Null
  /\ UNCHANGED settingsOpen
  /\ UNCHANGED <<result, docs, config, pc, jsonMatch, parsedData, structuredResult, raised>>
  /\ UNCHANGED <<app, prompt, snackbar, exported>>

\* CriteriaSelector.tsx line 681, called by the Cancel button (analysis.ts
\* line 1261) and by the Dialog (line 1051) for Escape or a click outside
onClose ==
  /\ settingsOpen
  /\ settingsOpen' = FALSE
  /\ UNCHANGED <<settings, localStorage>>
  /\ UNCHANGED <<result, docs, config, pc, jsonMatch, parsedData, structuredResult, raised>>
  /\ UNCHANGED <<app, prompt, snackbar, exported>>

NextSettings ==
  \/ onSettingsClick
  \/ \E c \in SettingChanges : handleSettingChange(c[1], c[2])
  \/ handleSave
  \/ handleReset
  \/ onClose

\* App as constructed, with or without settings stored by an earlier visit
InitSettings ==
  /\ localStorage \in {Null} \cup {StringifySettings(s) : s \in StoredSettings}
  /\ settings = InitialSettings(localStorage)
  /\ settingsOpen = FALSE
  /\ prompt = InitialPrompt
  /\ snackbarOpen = FALSE
  /\ snackbarMessage = ""
  /\ exported = Null
  /\ config = InitialConfig
  /\ docs = [A |-> DocA, B |-> DocB]
  /\ codeInput = <<>>
  /\ analysisResult = Null
  /\ loading = FALSE
  /\ error = Null
  /\ request = Null
  /\ pending = 0
  /\ timers = <<>>
  /\ elapsed = 0
  /\ result = Null
  /\ pc = "rendered"
  /\ structuredResult = Null
  /\ raised = FALSE
  /\ jsonMatch = NoMatch
  /\ parsedData = SyntaxError

SpecSettings == InitSettings /\ [][NextSettings]_vars

----------------------------------------------------------------------------
(* The server behind /api/analyze, which computes the result object.      *)

\* the scores the model gives the criteria
ScoreTables ==
  {[k \in CriterionKeys |-> IF k \in qualityCriteria THEN 6 ELSE 9]}

\* the raw texts of the model's answer
ResponseTexts == {<<"x">>, <<"J", "A", "F">>}

RECURSIVE SumOver(_, _)
SumOver(S, sc) ==
  IF S = {} THEN 0
  ELSE LET k == CHOOSE x \in S : TRUE IN sc[k] + SumOver(S \ {k}, sc)

RECURSIVE GCD(_, _)
GCD(a, b) == IF b = 0 THEN a ELSE GCD(b, a % b)

\* the number a / b
Ratio(a, b) ==
  LET g == GCD(a, b)
  IN IF b \div g = 1 THEN Num(a \div g)
     ELSE [t |-> "number", n |-> a \div g, d |-> b \div g]

\* the mean of the scores of the selected criteria, omitted when the
\* selection is all sixteen
WeightedOverallScore(c, sc) ==
  LET S == {k \in CriterionKeys : c[k]}
  IN IF S = CriterionKeys \/ S = {} THEN Undefined
     ELSE Ratio(SumOver(S, sc), Cardinality(S))

\* the result object for a request: an entry for each selected criterion
AnalysisResultFor(req, sc, text) ==
  [k \in Keys |->
     CASE k \in CriterionKeys -> IF req.config[k] THEN Obj(Num(sc[k]), CommentC) ELSE Undefined
       [] k = "overall_score" -> Num(8)
       [] k = "summary" -> Str(<<"x">>)
       [] k = "detailed_feedback" -> Str(text)
       [] k = "processing_time_ms" -> Num(1500)
       [] k = "analysis_timestamp" -> Str(<<"x">>)
       [] k = "input_length" -> Num(Len(req.code))
       [] k = "weighted_overall_score" -> WeightedOverallScore(req.config, sc)]

\* the bodies of the responses that are not ok
ErrorData ==
  {[details |-> d, error |-> e] :
     d \in {Undefined, Str(<<"details">>)}, e \in {Undefined, Str(<<"error">>)}}

\* what the server may answer to the pending request
Responses ==
  {Response(TRUE, "OK", TRUE, AnalysisResultFor(request, sc, text)) :
     sc \in ScoreTables, text \in ResponseTexts}
  \cup {Response(FALSE, "Internal Server Error", TRUE, ed) : ed \in ErrorData}
  \cup {Response(ok, "", FALSE, Null) : ok \in BOOLEAN}

NextApp ==
  \/ \E value \in CodeInputs : onChange(value)
  \/ \E key \in ToggleKeys : onToggle(key)
  \/ EnableAll
  \/ DisableAll
  \/ QualityOnly
  \/ QualityOnlyTimeout
  \/ handleAnalyze
  \/ pending > 0 /\ \E resp \in Responses : handleAnalyze_Resolved(resp)
  \/ handleAnalyze_Rejected
  \/ handleClearAll
  \/ Tick

\* lines 403-457: App as constructed, the output panel rendered with no result
InitApp ==
  /\ InitUnused
  /\ config = InitialConfig
  /\ docs = [A |-> DocA, B |-> DocB]
  /\ codeInput = <<>>
  /\ analysisResult = Null
  /\ loading = FALSE
  /\ error = Null
  /\ request = Null
  /\ pending = 0
  /\ timers = <<>>
  /\ elapsed = 0
  /\ result = Null
  /\ pc = "rendered"
  /\ structuredResult = Null
  /\ raised = FALSE
  /\ jsonMatch = NoMatch
  /\ parsedData = SyntaxError

SpecApp == InitApp /\ [][NextApp]_vars

\* App used through the input panel and the switches: the code and the
\* prompt are edited, analyses are run and cleared, notifications closed.
NextInput ==
  \/ \E value \in CodeInputs : onChange(value)
  \/ \E value \in Prompts : onPromptChange(value)
  \/ onSnackbarClose
  \/ \E key \in ToggleKeys : onToggle(key)
  \/ handleAnalyze
  \/ pending > 0 /\ \E resp \in Responses : handleAnalyze_Resolved(resp)
  \/ handleAnalyze_Rejected
  \/ handleClearAll

SpecInput == InitApp /\ [][NextInput]_vars

----------------------------------------------------------------------------
(* What the properties speak about *)

\* the raw text the panel was given
RawText == IF result["detailed_feedback"].t = "string"
           THEN result["detailed_feedback"].s ELSE <<>>

\* the render has run and went past the early return into the try block
ParseAttempted ==
  /\ pc = "rendered"
  /\ ~HasStructuredData(result)
  /\ Truthy(result["detailed_feedback"])
  /\ result["detailed_feedback"].t = "string"

Min(S) == CHOOSE x \in S : \A y \in S : x <= y

Max(S) == CHOOSE x \in S : \A y \in S : x >= y

AllWs(s, from, to) == \A i \in from..to : IsWs(s[i])

\* Strategy 1, stated on positions: the ```json tokens that have a fence
\* after them, and for the first of these the first fence after it.
JsonOpeners(s) == {i \in 1..Len(s) : s[i] = "J" /\ \E j \in (i + 1)..Len(s) : IsFence(s[j])}

JsonOpen(s) == Min(JsonOpeners(s))

JsonClose(s) == Min({j \in (JsonOpen(s) + 1)..Len(s) : IsFence(s[j])})

JsonFenceInterior(s) == Trim(SubSeq(s, JsonOpen(s) + 1, JsonClose(s) - 1))

\* Strategy 2: fence, whitespace, a span from an opening to a closing brace,
\* whitespace, fence.  Spans are <<opening fence, first, last>>.
BraceFenceSpans(s) ==
  {sp \in (1..Len(s)) \X (1..Len(s)) \X (1..Len(s)) :
     /\ s[sp[1]] = "F" /\ sp[1] < sp[2] /\ AllWs(s, sp[1] + 1, sp[2] - 1)
     /\ StartsWithBrace(s[sp[2]]) /\ EndsWithBrace(s[sp[3]])
     /\ sp[3] >= sp[2] /\ (s[sp[2]] = "{" => sp[3] > sp[2])
     /\ \E c \in (sp[3] + 1)..Len(s) : IsFence(s[c]) /\ AllWs(s, sp[3] + 1, c - 1)}

BraceFenceInterior(s) ==
  LET open == Min({sp[1] : sp \in BraceFenceSpans(s)})
      mine == {sp \in BraceFenceSpans(s) : sp[1] = open}
      last == Min({sp[3] : sp \in mine})
      first == Min({sp[2] : sp \in mine})
  IN SubSeq(s, first, last)

\* Strategy 3: from the first opening brace to the last closing brace.
BareSpans(s) ==
  {sp \in (1..Len(s)) \X (1..Len(s)) :
     /\ StartsWithBrace(s[sp[1]]) /\ EndsWithBrace(s[sp[2]])
     /\ sp[2] >= sp[1] /\ (s[sp[1]] = "{" => sp[2] > sp[1])}

BareSpan(s) ==
  SubSeq(s, Min({sp[1] : sp \in BareSpans(s)}), Max({sp[2] : sp \in BareSpans(s)}))

HasCandidate(s) == JsonOpeners(s) # {} \/ BraceFenceSpans(s) # {} \/ BareSpans(s) # {}

\* the candidate the ordered strategies prescribe
PrescribedCandidate(s) ==
  IF JsonOpeners(s) # {} THEN JsonFenceInterior(s)
  ELSE IF BraceFenceSpans(s) # {} THEN BraceFenceInterior(s)
  ELSE BareSpan(s)

\* what the function returns when it parses the candidate c
ResultUsing(r, c, d) ==
  LET pd == JSONparse(c, d)
  IN IF pd.ok /\ pd.kind # "null" THEN Merge(r, pd.props) ELSE r

\* an object lies in the text outside the ```json fence
BareObjectOutsideFence(s) ==
  \E q \in 1..Len(s) : s[q] \in ObjTok /\ (q < JsonOpen(s) \/ q > JsonClose(s))

\* C1: the strategies are tried in the fixed order ```json fence, fence
\* around {...}, bare brace span, and the first that matches supplies the
\* candidate; with a ```json fence in the text the result is built from the
\* fence's interior, whatever brace spans lie outside it.
C1_ExtractionOrder ==
  ParseAttempted =>
    /\ jsonMatch.found = HasCandidate(RawText)
    /\ jsonMatch.found => Captured(RawText, jsonMatch) = PrescribedCandidate(RawText)
    /\ JsonOpeners(RawText) # {} =>
         structuredResult = ResultUsing(result, JsonFenceInterior(RawText), docs)

\* a ```json fence holding one object and a different object outside it:
\* the fenced one was parsed and merged, the outer one left no trace
C1_Witness ==
  /\ ParseAttempted
  /\ JsonOpeners(RawText) # {}
  /\ Len(JsonFenceInterior(RawText)) = 1
  /\ JsonFenceInterior(RawText)[1] \in ObjTok
  /\ \E q \in 1..Len(RawText) :
       /\ RawText[q] \in ObjTok
       /\ RawText[q] # JsonFenceInterior(RawText)[1]
       /\ (q < JsonOpen(RawText) \/ q > JsonClose(RawText))
       /\ structuredResult["summary"] # docs[RawText[q]]["summary"]
  /\ parsedData.ok /\ parsedData.kind = "object"
  /\ structuredResult["summary"] = docs[JsonFenceInterior(RawText)[1]]["summary"]

----------------------------------------------------------------------------
(* The values the specification prescribes *)

SentinelCriterion == Obj(Num(0), Str(<<"No data available for this criterion">>))

SentinelSummary == Str(<<"Analysis completed but summary unavailable">>)

Clamp(n) == IF n > 10 THEN 10 ELSE IF n < 0 THEN 0 ELSE n

\* the render parsed an object out of the text and merged it
Merged ==
  ParseAttempted /\ jsonMatch.found /\ parsedData.ok /\ parsedData.kind = "object"

\* the properties of the extracted object; none when nothing was extracted
Extracted == IF Merged THEN parsedData.props ELSE EmptyObject

NoBraces(s) == \A i \in 1..Len(s) : ~StartsWithBrace(s[i]) /\ ~EndsWithBrace(s[i])

----------------------------------------------------------------------------
\* C2 as stated: every selected criterion key has an entry in the final
\* result, the sentinel entry when the extracted object lacks the key.
C2_SelectedCriteriaPresent ==
  pc = "rendered" =>
    \A k \in CriterionKeys :
      config[k] =>
        /\ structuredResult[k] # Undefined
        /\ (Merged /\ Extracted[k] = Undefined /\ result[k] = Undefined)
             => structuredResult[k] = SentinelCriterion

\* C2 as amended: the final entry of every criterion key is the extracted
\* object's entry when that is truthy and the response's own entry
\* otherwise; a key absent from both stays absent and renderCriterion
\* renders nothing for it.
C2_EntryIsExtractedOrOwn ==
  pc = "rendered" =>
    \A k \in CriterionKeys :
      /\ structuredResult[k] = (IF Truthy(Extracted[k]) THEN Extracted[k] ELSE result[k])
      /\ (Extracted[k] = Undefined /\ result[k] = Undefined)
           => /\ structuredResult[k] = Undefined
              /\ ~renderCriterion(structuredResult[k]).card

\* a selected key absent from the merged object and from the response,
\* next to a key the extracted object overrides
C2_Witness ==
  /\ Merged
  /\ config["securityConcernsAny"]
  /\ Extracted["securityConcernsAny"] = Undefined
  /\ result["securityConcernsAny"] = Undefined
  /\ structuredResult["securityConcernsAny"] = Undefined
  /\ Truthy(Extracted["areCodeChangesOptimized"])
  /\ Truthy(result["areCodeChangesOptimized"])
  /\ structuredResult["areCodeChangesOptimized"] = Extracted["areCodeChangesOptimized"]

\* C3: getStructuredData never raises to its caller, and a candidate that
\* JSON.parse rejects gives the same return value as no candidate: the
\* result it was given.
C3_ParseFailureIsAbsence ==
  pc = "rendered" =>
    /\ ~raised
    /\ (ParseAttempted /\ ~jsonMatch.found) => structuredResult = result
    /\ (ParseAttempted /\ jsonMatch.found /\ ~parsedData.ok) => structuredResult = result

\* a candidate was found in a response with a top-level score, JSON.parse
\* threw, and the call returned its argument
C3_Witness ==
  /\ ParseAttempted
  /\ jsonMatch.found
  /\ ~parsedData.ok
  /\ ~raised
  /\ result["overall_score"] = Num(8)
  /\ structuredResult = result

\* C4 as stated: every criterion score of the final result lies in [0,10],
\* a parsed score being output clamped.
C4_CriterionScoresClamped ==
  pc = "rendered" =>
    \A k \in CriterionKeys :
      /\ (structuredResult[k].t = "object" /\ structuredResult[k].score.t = "number")
           => (structuredResult[k].score.n >= 0 /\ structuredResult[k].score.n <= 10)
      /\ (Merged /\ Extracted[k].t = "object" /\ Extracted[k].score.t = "number")
           => structuredResult[k].score = Num(Clamp(Extracted[k].score.n))

\* C5 as stated: a numeric overall_score of the extracted object, zero
\* included, is output clamped to [0,10] and is not replaced by the
\* response's own score.
C5_OverallScoreFromExtracted ==
  (Merged /\ Extracted["overall_score"].t = "number") =>
    structuredResult["overall_score"] = Num(Clamp(Extracted["overall_score"].n))

\* C6 as stated: when the extracted object has no numeric overall_score the
\* output overall_score is 0.
C6_OverallScoreDefaultsToZero ==
  (Merged /\ Extracted["overall_score"].t # "number") =>
    structuredResult["overall_score"] = Num(0)

\* C7 as stated: for a raw text without any brace the final result has
\* overall_score 0, the sentinel summary, the raw text as detailed_feedback
\* and a sentinel entry for every selected criterion.
C7_NoBracesGivesSentinels ==
  (pc = "rendered" /\ result["detailed_feedback"].t = "string" /\ NoBraces(RawText)) =>
    /\ structuredResult["overall_score"] = Num(0)
    /\ structuredResult["summary"] = SentinelSummary
    /\ structuredResult["detailed_feedback"] = result["detailed_feedback"]
    /\ \A k \in CriterionKeys : config[k] => structuredResult[k] = SentinelCriterion

\* C7 as amended: for a raw text without any brace the final result is the
\* response as received: detailed_feedback is the raw text, and
\* overall_score, summary, every criterion entry and the metadata are what
\* the response carried, absent where it carried none.
C7_NoBracesGivesResponse ==
  (pc = "rendered" /\ result["detailed_feedback"].t = "string" /\ NoBraces(RawText)) =>
    /\ structuredResult["detailed_feedback"] = Str(RawText)
    /\ \A k \in Keys : structuredResult[k] = result[k]

\* a brace-free text whose ```json fence holds a JSON number, in a response
\* without score, summary or criteria: the merge ran and changed nothing
C7_Witness ==
  /\ ParseAttempted
  /\ NoBraces(RawText)
  /\ jsonMatch.found /\ parsedData.ok /\ parsedData.kind = "number"
  /\ result["overall_score"] = Undefined
  /\ result["summary"] = Undefined
  /\ structuredResult["overall_score"] = Undefined
  /\ structuredResult["input_length"] = Num(120)

\* C8 as stated: a response that carries overall_score, a non-empty summary
\* and an entry for each selected criterion comes back unchanged.
C8_CompleteResultUnchanged ==
  (/\ pc = "rendered"
   /\ result["overall_score"] # Undefined
   /\ Truthy(result["summary"])
   /\ \A k \in CriterionKeys : config[k] => result[k] # Undefined)
    => structuredResult = result

\* C9 as stated: a response carrying any top-level structured field is not
\* changed by JSON embedded in its detailed_feedback.
C9_AnyTopLevelFieldBlocksEmbedded ==
  (/\ pc = "rendered"
   /\ \/ result["overall_score"] # Undefined
      \/ result["summary"] # Undefined
      \/ \E k \in CriterionKeys : result[k] # Undefined)
    => structuredResult = result

\* C9 as amended: a response carrying overall_score, a non-empty summary
\* and an entry for at least one of areCodeChangesOptimized,
\* isCodeFormatted, isCodeWellWritten is returned unchanged: JSON embedded
\* in its detailed_feedback is not searched for and changes no field.
C9_StructuredResponseBlocksEmbedded ==
  (/\ pc = "rendered"
   /\ result["overall_score"] # Undefined
   /\ Truthy(result["summary"])
   /\ \E k \in {"areCodeChangesOptimized", "isCodeFormatted", "isCodeWellWritten"} :
        Truthy(result[k]))
    => /\ structuredResult = result
       /\ ~jsonMatch.found

\* a structured response whose detailed_feedback embeds an object with
\* other values, returned as it came
C9_Witness ==
  /\ pc = "rendered"
  /\ result["overall_score"] = Num(8)
  /\ Truthy(result["summary"])
  /\ Truthy(result["areCodeChangesOptimized"])
  /\ RawText = <<"A">>
  /\ docs["A"]["overall_score"] = Num(7)
  /\ Truthy(docs["A"]["summary"])
  /\ structuredResult = result

\* C10 as stated: a criterion sub-object lacking one field keeps the field
\* it has and gets the default for the other (score 0, comment ""), so no
\* field of the entry is left undefined.
C10_PartialEntryFilled ==
  Merged =>
    \A k \in CriterionKeys :
      Extracted[k].t = "object" =>
        /\ structuredResult[k].t = "object"
        /\ structuredResult[k].score =
             (IF Extracted[k].score = Undefined THEN Num(0) ELSE Extracted[k].score)
        /\ structuredResult[k].comment =
             (IF Extracted[k].comment = Undefined THEN Str(<<>>) ELSE Extracted[k].comment)

----------------------------------------------------------------------------
\* C11 as stated: the output summary is the extracted summary when that is
\* a non-empty string and the fixed sentinel string otherwise, so it is
\* never absent.
C11_SummaryOrSentinel ==
  pc = "rendered" =>
    structuredResult["summary"] =
      (IF Extracted["summary"].t = "string" /\ Extracted["summary"].s # <<>>
       THEN Extracted["summary"] ELSE SentinelSummary)

\* C11 as amended: the output summary is the extracted summary when that is
\* truthy and the response's own summary otherwise, absent when the
\* response has none; its value never comes from the raw text.
C11_SummaryIsExtractedOrOwn ==
  pc = "rendered" =>
    /\ structuredResult["summary"] =
         (IF Truthy(Extracted["summary"]) THEN Extracted["summary"] ELSE result["summary"])
    /\ (~Truthy(Extracted["summary"]) /\ result["summary"] = Undefined)
         => structuredResult["summary"] = Undefined

\* an object with an empty summary merged into a response that has no
\* summary but a non-empty raw text: the summary stays absent
C11_Witness ==
  /\ Merged
  /\ Extracted["summary"] = Str(<<>>)
  /\ result["summary"] = Undefined
  /\ RawText # <<>>
  /\ structuredResult["summary"] = Undefined
  /\ structuredResult["detailed_feedback"] = Str(RawText)

C13_MetadataFromCaller ==
  pc = "rendered" =>
    \A k \in MetaKeys : structuredResult[k] = result[k]

\* an extracted object with its own processing_time_ms and input_length was
\* merged and the caller's values are in the output
C13_Witness ==
  /\ Merged
  /\ Extracted["processing_time_ms"] = Num(1)
  /\ Extracted["input_length"] = Num(5)
  /\ Truthy(Extracted["analysis_timestamp"])
  /\ structuredResult["processing_time_ms"] = Num(1500)
  /\ structuredResult["input_length"] = Num(120)
  /\ structuredResult["overall_score"] = Extracted["overall_score"]
  /\ Extracted["overall_score"] = Num(7)

\* no fenced block matches the text
NoFenceMatches(s) == JsonOpeners(s) = {} /\ BraceFenceSpans(s) = {}

FirstOpeningBrace(s) == Min({i \in 1..Len(s) : StartsWithBrace(s[i])})

LastClosingBrace(s) == Max({i \in 1..Len(s) : EndsWithBrace(s[i])})

\* the text has an opening brace and a closing brace after it
HasBraceSpan(s) ==
  /\ \E i \in 1..Len(s) : StartsWithBrace(s[i])
  /\ \E i \in 1..Len(s) : EndsWithBrace(s[i])
  /\ LastClosingBrace(s) >= FirstOpeningBrace(s)
  /\ s[FirstOpeningBrace(s)] = "{" => LastClosingBrace(s) > FirstOpeningBrace(s)

\* C15: when no fenced block matches, the candidate is the text from its
\* first { to its last }, inclusive; when no strategy offers a candidate,
\* nothing is parsed and the result is passed on as it came.
C15_BareSpanOrNothing ==
  (ParseAttempted /\ NoFenceMatches(RawText)) =>
    /\ jsonMatch.found = HasBraceSpan(RawText)
    /\ HasBraceSpan(RawText) =>
         /\ jsonMatch.from = FirstOpeningBrace(RawText)
         /\ jsonMatch.to = LastClosingBrace(RawText)
    /\ ~HasBraceSpan(RawText) =>
         /\ ~parsedData.ok
         /\ structuredResult = result

\* a bare span that runs past an inner closing brace to the last one
C15_Witness ==
  /\ ParseAttempted
  /\ NoFenceMatches(RawText)
  /\ jsonMatch.found
  /\ \E i \in jsonMatch.from..(jsonMatch.to - 1) : EndsWithBrace(RawText[i])
  /\ jsonMatch.from > 1
  /\ jsonMatch.to < Len(RawText)

\* no strategy finds a candidate in a non-empty text with a closing brace
C15_WitnessNothing ==
  /\ ParseAttempted
  /\ ~jsonMatch.found
  /\ \E i \in 1..Len(RawText) : EndsWithBrace(RawText[i])
  /\ structuredResult = result

----------------------------------------------------------------------------
\* the step is the Analyze click
AnalyzeClicked == handleAnalyze

SelectMessage ==
  Str(<<"Please select at least one analysis criterion before running the analysis">>)

\* C16: no request is ever sent whose selection has all sixteen criteria
\* false; handleAnalyze with nothing selected sets the error, sends nothing
\* and leaves loading false.
C16_NoRequestWithoutSelection ==
  /\ [](request # Null => \E k \in CriterionKeys : request.config[k])
  /\ [][(AnalyzeClicked /\ \A k \in CriterionKeys : ~config[k])
          => /\ error' = SelectMessage
             /\ request' = request
             /\ loading' = FALSE
             /\ analysisResult' = analysisResult]_vars

\* Analyze was clicked on code with nothing selected: the error is shown and
\* nothing has been sent
C16_Witness ==
  /\ ~IsBlank(codeInput)
  /\ \A k \in CriterionKeys : ~config[k]
  /\ error = SelectMessage
  /\ request = Null
  /\ ~loading

\* C17 as stated: a request is time-boxed, loading is true for at most the
\* configured API timeout after the request was sent.
C17_LoadingTimeBoxed == loading => elapsed <= apiTimeout

\* the step ends a call in failure: the fetch rejects, the response is not
\* ok, or its body cannot be read
CallFails ==
  \/ handleAnalyze_Rejected
  \/ pending > 0 /\ \E resp \in Responses :
                      (~resp.ok \/ ~resp.json) /\ handleAnalyze_Resolved(resp)

\* what the claim says of the state after a failed call
FailureShown ==
  /\ error # Null
  /\ analysisResult = Null
  /\ ~loading
  /\ structuredResult = Null

\* C18 as stated: a call that failed by a network error, a response that is
\* not ok, or by taking longer than the API timeout, leaves error non-null,
\* analysisResult null and loading false, with nothing of the call given to
\* getStructuredData.
C18_FailedCallReported ==
  /\ [][CallFails => FailureShown']_vars
  /\ [](elapsed > apiTimeout => FailureShown)

\* the part of C18 that holds: calls that end by a rejected fetch, a
\* response that is not ok or an unreadable body
C18_EndedCallReported == [][CallFails => FailureShown']_vars

\* C19: while a request is in flight, a change of the selection (one switch,
\* Enable All, Disable All, Quality Only and its timer) changes neither the
\* selection that was sent nor the displayed result, and no step in flight
\* changes what was sent.
C19_SelectionFixedInFlight ==
  /\ [][(loading /\ config' # config)
          => /\ request' = request
             /\ analysisResult' = analysisResult
             /\ structuredResult' = structuredResult]_vars
  /\ [][loading => request' = request]_vars

\* a request in flight whose selection was sent with securityConcernsAny,
\* switched off since
C19_Witness ==
  /\ loading
  /\ request.config # config
  /\ request.config["securityConcernsAny"] /\ ~config["securityConcernsAny"]
  /\ analysisResult = Null

\* the selection sent with the latest request
SentSelection == {k \in CriterionKeys : request.config[k]}

RECURSIVE SumOfScores(_, _)
\* the sum of the scores the response gives the criteria of S
SumOfScores(S, r) ==
  IF S = {} THEN 0
  ELSE LET k == CHOOSE x \in S : TRUE IN r[k].score.n + SumOfScores(S \ {k}, r)

\* a number equal to a / b
IsQuotient(v, a, b) ==
  /\ v.t = "number"
  /\ IF "d" \in DOMAIN v THEN v.n * b = a * v.d ELSE v.n * b = a

C20_WitnessAll ==
  /\ analysisResult # Null
  /\ SentSelection = CriterionKeys
  /\ structuredResult["weighted_overall_score"] = Undefined

----------------------------------------------------------------------------
\* the keys an object has a value for
DefinedKeys(o) == {k \in DOMAIN o : o[k] # Undefined}

\* C21 as stated: the exported object has exactly the keys of the result
\* received from the analysis plus exported_at, and every other key has the
\* value it has in that result.
C21_ExportIsReceivedResult ==
  exported # Null =>
    /\ DOMAIN exported = DefinedKeys(result) \cup {"exported_at"}
    /\ \A k \in DefinedKeys(result) : exported[k] = result[k]

\* C21 as amended: the exported object has exactly the keys of the
\* structured result the panel displays plus exported_at, and every other
\* key has the value it has in the structured result; it is the received
\* result plus exported_at when getStructuredData returned that unchanged.
C21_ExportIsStructuredResult ==
  exported # Null =>
    /\ DOMAIN exported = DefinedKeys(structuredResult) \cup {"exported_at"}
    /\ \A k \in DefinedKeys(structuredResult) : exported[k] = structuredResult[k]
    /\ exported["exported_at"].s \in Timestamps
    /\ structuredResult = result =>
         \A k \in DefinedKeys(result) : exported[k] = result[k]

\* an export after a merge: the file has a criterion and a score that the
\* received result did not have
C21_Witness ==
  /\ exported # Null
  /\ Merged
  /\ result["isCodeFormatted"] = Undefined
  /\ "isCodeFormatted" \in DOMAIN exported
  /\ result["overall_score"] = Num(8)
  /\ exported["overall_score"] = Num(7)
  /\ "weighted_overall_score" \notin DOMAIN exported

----------------------------------------------------------------------------
\* the call has no input context at all: no result, or a result with no raw
\* text and no timing information
NoInputContext ==
  \/ result = Null
  \/ /\ result["detailed_feedback"] = Undefined
     /\ result["processing_time_ms"] = Undefined
     /\ result["analysis_timestamp"] = Undefined

\* C22 as stated: the call surfaces an error to its caller exactly when it
\* has no input context at all.
C22_FatalOnlyWithoutContext ==
  pc = "rendered" => (raised <=> NoInputContext)

\* C22 as amended: the call never surfaces an error; without input context
\* it returns what it was given, and after an extraction miss or a parse
\* failure it returns the result it was given.
C22_NeverFatal ==
  pc = "rendered" =>
    /\ ~raised
    /\ NoInputContext => structuredResult = result
    /\ (result # Null /\ ~(jsonMatch.found /\ parsedData.ok)) => structuredResult = result

\* a rendered call without input context: no error, the argument returned
C22_Witness ==
  /\ pc = "rendered"
  /\ NoInputContext
  /\ result # Null
  /\ ~raised
  /\ structuredResult = result

\* a rendered call whose candidate failed to parse: no error either
C22_WitnessParseFailure ==
  /\ pc = "rendered"
  /\ result # Null
  /\ jsonMatch.found
  /\ ~parsedData.ok
  /\ ~raised
  /\ structuredResult = result

----------------------------------------------------------------------------
\* C23 as stated: after a merge each of the nineteen merged fields is the
\* embedded object's value when the embedded object has the field and the
\* result's own value only when it lacks it; every other field is the
\* result's.
C23_EmbeddedFieldWins ==
  Merged =>
    /\ \A k \in MergedKeys :
         structuredResult[k] =
           (IF Extracted[k] # Undefined THEN Extracted[k] ELSE result[k])
    /\ \A k \in Keys \ MergedKeys : structuredResult[k] = result[k]

----------------------------------------------------------------------------
\* C24 as stated: when the deferred step of Quality Only runs with no other
\* toggle since the click (the click has left every criterion disabled), it
\* ends with exactly the four quality criteria enabled.
C24_QualityOnlyEndsWithQuality ==
  [][(QualityOnlyTimeout /\ config = InitialConfig)
       => config' = OnlySelected(qualityCriteria)]_vars

----------------------------------------------------------------------------
\* C25 as stated: analysisResult and error are never both non-null.
C25_ResultAndErrorExclusive == ~(analysisResult # Null /\ error # Null)

----------------------------------------------------------------------------
C26_WitnessEnded ==
  /\ ~loading
  /\ pending = 0
  /\ request # Null
  /\ analysisResult # Null
  /\ error = Null

----------------------------------------------------------------------------
\* C27 as stated: getStructuredData applied to its own output returns that
\* output, for every result, also when the embedded JSON's detailed_feedback
\* holds a JSON-looking span itself.
C27_Idempotent ==
  (pc = "rendered" /\ structuredResult # Null)
    => getStructuredData(structuredResult, docs).value = structuredResult

----------------------------------------------------------------------------
\* C28: from any selection Enable All ends with all sixteen criteria
\* enabled and Disable All with all sixteen disabled; applied to a selection
\* already in its target state either changes nothing.
C28_EnableDisableAll ==
  /\ [][EnableAll => config' = AllSelected]_vars
  /\ [][DisableAll => config' = OnlySelected({})]_vars
  /\ [][(EnableAll /\ config = AllSelected) => UNCHANGED vars]_vars
  /\ [][(DisableAll /\ config = OnlySelected({})) => UNCHANGED vars]_vars

\* all sixteen enabled, which only Enable All produces, after an analysis
\* was sent with a selection of some criteria
C28_Witness ==
  /\ config = AllSelected
  /\ request # Null
  /\ request.config # AllSelected

\* all sixteen disabled again after an analysis of all sixteen
C28_WitnessDisabled ==
  /\ config = OnlySelected({})
  /\ request # Null
  /\ request.config = AllSelected
  /\ timers = <<>>

----------------------------------------------------------------------------
\* C29 as stated: closing the Settings dialog without Save leaves the stored
\* settings as they were when it was opened (while the dialog is open the
\* store changes only in the step of Save, which closes it), and a closed
\* dialog holds the settings it will show when next opened: the stored
\* ones, the defaults when nothing is stored.
C29_CancelDiscardsEdits ==
  /\ [](~settingsOpen => settings = InitialSettings(localStorage))
  /\ [][(settingsOpen /\ localStorage' # localStorage) => ~settingsOpen']_vars

----------------------------------------------------------------------------
\* C30: handleClearAll sets codeInput to empty and analysisResult and error
\* to null, and leaves the criteria selection, the prompt and loading as
\* they were.
C30_ClearAllFrame ==
  [][handleClearAll
       => /\ codeInput' = <<>>
          /\ analysisResult' = Null
          /\ error' = Null
          /\ config' = config
          /\ prompt' = prompt
          /\ loading' = loading]_vars

\* cleared after an analysis, with a prompt of the user's and a selection
C30_Witness ==
  /\ snackbarOpen
  /\ snackbarMessage = "All content cleared"
  /\ codeInput = <<>>
  /\ analysisResult = Null
  /\ error = Null
  /\ request # Null
  /\ prompt # InitialPrompt
  /\ selectedCriteria(config) > 0

====
